---------------------------- MODULE Spec2Model ----------------------------
(***************************************************************************)
(* A model of the AngelOne support chatbot core:                           *)
(*   - VectorStore (src/vector_store.py): build, search, save, load        *)
(*   - LLMInterface (src/llm.py): the guards and the generation dispatch   *)
(*   - DocumentIngestor (src/ingest.py): the recursive crawl               *)
(*                                                                         *)
(* A Python str is a sequence of one-character strings.  A float distance  *)
(* is an integer number of tenths (relevance_threshold 1.2 is 12).  An     *)
(* embedding vector is a point on a line; the L2 distance of faiss is the  *)
(* squared difference.                                                     *)
(***************************************************************************)
EXTENDS Integers, Sequences, FiniteSets, TLC

VARIABLES
    \* VectorStore (src/vector_store.py)
    documents,            \* self.documents: the chunk texts, in order
    embeddings,           \* self.embeddings: None or the matrix, one row per chunk
    index,                \* self.index: None or the faiss IndexFlatL2
    relevance_threshold,  \* self.relevance_threshold, in tenths
    file,                 \* the persisted file vector_store.pkl
    vsLast,               \* the last VectorStore call: its arguments and outcome
    saved,                \* what the store held when save last wrote the file that is there
    \* LLMInterface (src/llm.py)
    model_type,           \* self.model_type
    model,                \* self.model is loaded (not None)
    tokenizer,            \* self.tokenizer is loaded (not None)
    qa_pipeline,          \* self.qa_pipeline: "unset" (no attribute), "none", "loaded"
    llmLast,              \* the last generate_response call: arguments, tiers, response
    \* DocumentIngestor.scrape_website_recursive (src/ingest.py)
    visited_urls,         \* self.visited_urls
    max_pages,            \* self.max_pages
    urls_to_visit,        \* the frontier, a FIFO list
    pages_scraped,        \* the pages processed so far
    crawl_documents,      \* documents: the source URL of each Document, in order
    current_url,          \* the URL popped last
    pc,                   \* the position in the crawl
    fetches,              \* the requests.get calls issued in this crawl
    enqueues,             \* per URL, the times it was put on the frontier in this crawl
    popped_visited,       \* the crawl popped a URL that was in visited_urls
    link_skipped,         \* the crawl left a link out of the frontier as visited or queued
    page_result,          \* document: what _scrape_single_page gave for current_url
    delayed,              \* time.sleep was called after the last requests.get
    \* The Streamlit session of main (src/app.py)
    ss_vector_store,      \* st.session_state.vector_store: "absent" (no key), "none", "store"
    ss_llm,               \* st.session_state.llm: "absent" (no key), "none", "llm"
    chat_history,         \* st.session_state.chat_history
    ui,                   \* what the last run of the script left on the page
    appLast               \* the last run of main: what started it and what it did

vsVars == <<documents, embeddings, index, relevance_threshold, file, vsLast, saved>>

llmVars == <<model_type, model, tokenizer, qa_pipeline, llmLast>>

crawlVars ==
    <<visited_urls, max_pages, urls_to_visit, pages_scraped, crawl_documents,
      current_url, pc, fetches, enqueues, popped_visited, link_skipped,
      page_result, delayed>>

appVars == <<ss_vector_store, ss_llm, chat_history, ui, appLast>>

vars == <<vsVars, llmVars, crawlVars, appVars>>

---------------------------------------------------------------------------
(* Characters and the regular expressions of the two query screens.        *)

LowerChars ==
    <<"a","b","c","d","e","f","g","h","i","j","k","l","m",
      "n","o","p","q","r","s","t","u","v","w","x","y","z">>

UpperChars ==
    <<"A","B","C","D","E","F","G","H","I","J","K","L","M",
      "N","O","P","Q","R","S","T","U","V","W","X","Y","Z">>

Digits == {"0","1","2","3","4","5","6","7","8","9"}

Range(s) == {s[i] : i \in 1..Len(s)}

\* str.lower() on one character
LowerChar(c) ==
    IF c \in Range(UpperChars)
    THEN LowerChars[CHOOSE i \in 1..Len(UpperChars) : UpperChars[i] = c]
    ELSE c

\* str.lower()
Lower(s) == [i \in 1..Len(s) |-> LowerChar(s[i])]

\* [a-zA-Z]
IsAsciiLetter(c) == c \in Range(LowerChars) \cup Range(UpperChars)

\* \w on the characters of the model: a letter, a digit or the underscore
IsWordChar(c) == IsAsciiLetter(c) \/ c \in Digits \/ c = "_"

\* \b at position p, between s[p-1] and s[p] (p in 1..Len(s)+1)
WordBoundary(s, p) ==
    LET before == p > 1 /\ IsWordChar(s[p - 1])
        after  == p <= Len(s) /\ IsWordChar(s[p])
    IN  before # after

\* The end of the match of \b[a-zA-Z]{2,}\b starting at i, 0 when there is none.
\* The quantifier is greedy: the longest run that ends at a word boundary.
WordMatchEnd(s, i) ==
    LET ends == {e \in (i + 1)..Len(s) :
                    /\ \A j \in i..e : IsAsciiLetter(s[j])
                    /\ WordBoundary(s, e + 1)}
    IN  IF WordBoundary(s, i) /\ ends # {}
        THEN CHOOSE e \in ends : \A f \in ends : f <= e
        ELSE 0

RECURSIVE FindWordsFrom(_, _)
FindWordsFrom(s, i) ==
    IF i > Len(s) THEN <<>>
    ELSE LET e == WordMatchEnd(s, i)
         IN  IF e = 0 THEN FindWordsFrom(s, i + 1)
             ELSE <<SubSeq(s, i, e)>> \o FindWordsFrom(s, e + 1)

\* re.findall(r'\b[a-zA-Z]{2,}\b', query.lower())
FindWords(query) == FindWordsFrom(Lower(query), 1)

\* len(set(word))
DistinctChars(word) == Cardinality(Range(word))

\* The whitelist of VectorStore._is_valid_query
FunctionWords ==
    {<<"i">>, <<"a">>, <<"i","s">>, <<"i","t">>, <<"t","o">>,
     <<"d","o">>, <<"g","o">>, <<"n","o">>}

\* VectorStore._is_valid_query
is_valid_query(query) ==
    LET words == FindWords(query)
        meaningful_words ==
            {i \in 1..Len(words) :
                DistinctChars(words[i]) >= 2 \/ words[i] \in FunctionWords}
    IN  meaningful_words # {}

Vowels == {"a","e","i","o","u"}

Consonants == Range(LowerChars) \ Vowels

Syllables ==
    {<<"d","a">>, <<"b","a">>, <<"j","a">>, <<"k","a">>, <<"l","a">>,
     <<"m","a">>, <<"n","a">>, <<"p","a">>, <<"r","a">>, <<"s","a">>,
     <<"t","a">>, <<"w","a">>, <<"z","a">>}

\* re.search(r'(.)\1{3,}', word)
HasRepeatedChar(word) ==
    \E i \in 1..(Len(word) - 3) :
        word[i] = word[i + 1] /\ word[i] = word[i + 2] /\ word[i] = word[i + 3]

\* re.search(r'^(da|ba|ja|ka|la|ma|na|pa|ra|sa|ta|wa|za){2,}$', word)
IsSyllableRepeat(word) ==
    /\ Len(word) >= 4
    /\ Len(word) % 2 = 0
    /\ \A h \in 1..(Len(word) \div 2) : SubSeq(word, 2 * h - 1, 2 * h) \in Syllables

\* re.search(r'^[aeiou]+$', word)
IsAllVowels(word) == Len(word) >= 1 /\ Range(word) \subseteq Vowels

\* re.search(r'^[bcdfghjklmnpqrstvwxyz]+$', word)
IsAllConsonants(word) == Len(word) >= 1 /\ Range(word) \subseteq Consonants

\* any(re.search(pattern, word) for pattern in gibberish_patterns)
IsGibberish(word) ==
    \/ HasRepeatedChar(word)
    \/ IsSyllableRepeat(word)
    \/ IsAllVowels(word)
    \/ IsAllConsonants(word)

\* LLMInterface._is_meaningful_query
is_meaningful_query(query) ==
    LET words == FindWords(query)
        meaningful_words ==
            {i \in 1..Len(words) :
                ~IsGibberish(words[i]) /\ DistinctChars(words[i]) >= 2}
    IN  IF Len(words) = 0 THEN FALSE ELSE Cardinality(meaningful_words) > 0

\* The queries of the model (spec.md section 8 and the cases of the two screens)
QAsd == <<"a","s","d","a","s","d","a","s","d">>

QAaaa == <<"a","a","a","a">>

QXyz == <<"x","y","z","x","y","z","x","y","z">>

QOpenAccount ==
    <<"H","o","w"," ","d","o"," ","I"," ","o","p","e","n"," ",
      "a","n"," ","a","c","c","o","u","n","t","?">>

QDada == <<"d","a","d","a">>

QIs == <<"i","s">>

QMixed == <<"a","b","1"," ","?">>

QFees == <<"W","h","a","t"," ","a","r","e"," ","t","h","e"," ","f","e","e","s","?">>

QFeesOnly == <<"f","e","e","s","?">>

QAccountFees == <<"a","c","c","o","u","n","t"," ","f","e","e","s","?">>

Queries ==
    {QAsd, QAaaa, QXyz, QOpenAccount, QDada, QIs, QMixed, QFees, QFeesOnly, QAccountFees}

\* The verdicts of the two screens on the queries of the model, computed once
ValidQueryTable == [q \in Queries |-> is_valid_query(q)]

MeaningfulQueryTable == [q \in Queries |-> is_meaningful_query(q)]

\* self._is_valid_query(query), as search calls it
IsValidQuery(query) ==
    IF query \in Queries THEN ValidQueryTable[query] ELSE is_valid_query(query)

MaxUrls == 3

\* The pages of the crawled site, by path
SitePaths == 1..MaxUrls

\* A URL: its netloc and its path
SiteUrls == {[netloc |-> "www.angelone.in", path |-> p] : p \in SitePaths}

OtherUrl == [netloc |-> "other.example", path |-> 1]

Urls == SiteUrls \cup {OtherUrl}

\* current_url before the first pop
NoUrl == [netloc |-> "", path |-> 0]

\* _fallback_response was not called
NoFallback == [kind |-> "none", text |-> <<>>, canned |-> ""]

\* The state of llmLast before any call
NoGeneration ==
    [op |-> "init", query |-> <<>>, context |-> <<>>, cleaned |-> <<>>,
     outcome |-> "none", trace |-> <<>>, response |-> "none", fallback |-> NoFallback,
     results |-> <<>>, formatted |-> <<>>]

---------------------------------------------------------------------------
(* VectorStore: src/vector_store.py                                        *)

MaxChunks == 1

MaxK == 2

\* page_content of the chunks handed to create_embeddings
Texts == {"docA", "docB"}

\* The embeddings the sentence model gives the queries
QueryVectors == {0, 1}

ChunkLists == UNION {[1..n -> Texts] : n \in 0..MaxChunks}

\* self.model.encode(texts): one row per text, the same row for the same text
EncodeText(text) == IF text = "docA" THEN 0 ELSE 2

Encode(texts) == [i \in 1..Len(texts) |-> EncodeText(texts[i])]

\* self.index is None / self.embeddings is None
NoIndex == [built |-> FALSE, vecs |-> <<>>]

NoMatrix == [present |-> FALSE, rows |-> <<>>]

\* index.ntotal, 0 for an absent index
IndexSize(ix) == IF ix.built THEN Len(ix.vecs) ELSE 0

\* embeddings.shape[0], 0 for an absent matrix
MatrixRows(m) == IF m.present THEN Len(m.rows) ELSE 0

\* The mutated form of NewIndex: the vectors are added to the index at hand.
NewIndexAppending(old, emb) ==
    [built |-> TRUE, vecs |-> (IF old.built THEN old.vecs ELSE <<>>) \o emb]

\* faiss.IndexFlatL2(self.dimension) followed by index.add(embeddings)
NewIndex(old, emb) == [built |-> TRUE, vecs |-> emb]

\* The L2 distance of IndexFlatL2 (squared), in tenths
Distance(a, b) == 10 * (a - b) * (a - b)

\* The mutated form of IsRelevant: no relevance filter.
IsRelevantAlways(distance, threshold) == TRUE

\* distance <= self.relevance_threshold
IsRelevant(distance, threshold) == distance <= threshold

\* The i-th nearest neighbour of qvec among vecs, the ones in taken left out:
\* the smallest distance, the smallest position among equal distances.
Nearest(vecs, qvec, taken) ==
    CHOOSE i \in (1..Len(vecs)) \ taken :
        \A j \in (1..Len(vecs)) \ taken :
            \/ Distance(vecs[i], qvec) < Distance(vecs[j], qvec)
            \/ Distance(vecs[i], qvec) = Distance(vecs[j], qvec) /\ i <= j

\* The mutated form of PaddingEntry: a padding entry at distance 0.
PaddingEntryNear == [distance |-> 0, idx |-> -1]

\* What index.search gives for a neighbour the index does not have
PaddingEntry == [distance |-> 2147483647, idx |-> -1]

RECURSIVE Knn(_, _, _, _)
\* self.index.search(query_embedding, k): k (distance, idx) pairs in ascending
\* distance, idx counted from 0; padded with idx -1 and the largest float
\* when the index holds fewer than k vectors.
Knn(vecs, qvec, k, taken) ==
    IF k = 0 THEN <<>>
    ELSE IF Cardinality(taken) = Len(vecs)
         THEN <<PaddingEntry>> \o Knn(vecs, qvec, k - 1, taken)
         ELSE LET i == Nearest(vecs, qvec, taken)
              IN  <<[distance |-> Distance(vecs[i], qvec), idx |-> i - 1]>>
                  \o Knn(vecs, qvec, k - 1, taken \cup {i})

\* self.documents[idx] is defined: Python counts a negative idx from the end
CanIndex(docs, idx) == idx < Len(docs) /\ idx >= 0 - Len(docs)

\* self.documents[idx].page_content
DocAt(docs, idx) == IF idx >= 0 THEN docs[idx + 1] ELSE docs[Len(docs) + idx + 1]

RECURSIVE FilterResults(_, _, _, _)
\* The loop of search over zip(distances[0], indices[0]), from candidate n on:
\* the results, and whether documents[idx] raised IndexError.
FilterResults(cands, n, docs, threshold) ==
    IF n > Len(cands) THEN [raised |-> FALSE, results |-> <<>>]
    ELSE LET c    == cands[n]
             rest == FilterResults(cands, n + 1, docs, threshold)
         IN  IF c.idx < Len(docs) /\ IsRelevant(c.distance, threshold)
             THEN IF ~CanIndex(docs, c.idx)
                  THEN [raised |-> TRUE, results |-> <<>>]
                  ELSE [raised  |-> rest.raised,
                        results |-> IF rest.raised THEN <<>>
                                    ELSE <<[text |-> DocAt(docs, c.idx),
                                            distance |-> c.distance]>> \o rest.results]
             ELSE rest

\* VectorStore.search, after the query embedding qvec has been computed
SearchResults(ix, docs, threshold, query, qvec, k) ==
    IF ~ix.built THEN [raised |-> FALSE, results |-> <<>>]
    ELSE IF ~IsValidQuery(query) THEN [raised |-> FALSE, results |-> <<>>]
    ELSE FilterResults(Knn(ix.vecs, qvec, k, {}), 1, docs, threshold)

\* The three fields of the persisted dictionary
Fields == {"documents", "embeddings", "index"}

\* No file at the path
MissingFile ==
    [kind |-> "missing", has |-> {}, documents |-> <<>>, embeddings |-> NoMatrix,
     index |-> [mode |-> "none", vecs |-> <<>>]]

\* A file pickle.load cannot read (truncated, not a pickle)
UnpicklableFile == [MissingFile EXCEPT !.kind = "unpicklable"]

\* A pickle of an object that is no dictionary: data.get raises
NotDictFile == [MissingFile EXCEPT !.kind = "notdict"]

\* faiss.serialize_index(self.index) if self.index is not None else None
SerializeIndex(ix) ==
    IF ix.built THEN [mode |-> "ok", vecs |-> ix.vecs]
    ELSE [mode |-> "none", vecs |-> <<>>]

\* The dictionary save pickles
SavedFile(docs, emb, ix) ==
    [kind |-> "dict", has |-> Fields, documents |-> docs, embeddings |-> emb,
     index |-> SerializeIndex(ix)]

\* The value a dropped field leaves behind is never read
DropFields(f, keep) ==
    [f EXCEPT !.has = keep,
              !.documents = IF "documents" \in keep THEN @ ELSE <<>>,
              !.embeddings = IF "embeddings" \in keep THEN @ ELSE NoMatrix,
              !.index = IF "index" \in keep THEN @ ELSE [mode |-> "none", vecs |-> <<>>]]

\* The chunk lists of the snapshots another writer leaves
ForeignChunkLists == {<<"docB">>}

\* The files another writer may leave at the path: a snapshot of a built store
\* with any of its fields dropped, with its index field None or not a faiss
\* index, and the files that are no pickled dictionary; or no file at all.
ForeignFiles ==
    {MissingFile, UnpicklableFile, NotDictFile}
    \cup {DropFields([SavedFile(c, [present |-> TRUE, rows |-> Encode(c)],
                                NewIndex(NoIndex, Encode(c)))
                        EXCEPT !.index = IF m = "keep" THEN @
                                         ELSE [mode |-> m, vecs |-> <<>>]], keep) :
            c \in ForeignChunkLists, keep \in SUBSET Fields, m \in {"keep", "none", "garbage"}}

\* data.get('documents', [])
LoadedDocuments(f) == IF "documents" \in f.has THEN f.documents ELSE <<>>

\* data.get('embeddings', None)
LoadedEmbeddings(f) == IF "embeddings" \in f.has THEN f.embeddings ELSE NoMatrix

\* data.get('index', None)
LoadedIndexData(f) ==
    IF "index" \in f.has THEN f.index ELSE [mode |-> "none", vecs |-> <<>>]

\* The mutated form of DeserializeIndex: the vectors are lost.
DeserializeIndexEmpty(data) == [built |-> TRUE, vecs |-> <<>>]

\* faiss.deserialize_index(index_data), for index_data that is a faiss index
DeserializeIndex(data) == [built |-> TRUE, vecs |-> data.vecs]

\* An exception is raised inside the try of load: by pickle.load, by data.get
\* on an object that is no dictionary, or by faiss.deserialize_index
LoadRaises(f) ==
    \/ f.kind \in {"unpicklable", "notdict"}
    \/ f.kind = "dict" /\ LoadedIndexData(f).mode = "garbage"

\* The mutated form of LoadReturn: True for every file that exists.
LoadReturnIgnoringErrors(f) == f.kind # "missing"

\* The value load returns: False for no file, False from the except clause,
\* True at the end of the try
LoadReturn(f) == IF f.kind = "missing" THEN FALSE ELSE ~LoadRaises(f)

\* initialize_system: the branch taken on the value of vector_store.load
InitializeBranch(loaded) == IF loaded THEN "serve" ELSE "rebuild"

\* No file written by save is at the path
NothingSaved == [valid |-> FALSE, documents |-> <<>>, index |-> NoIndex]

NoCall ==
    [op |-> "init", chunks |-> <<>>, query |-> <<>>, k |-> 0, qvec |-> 0,
     prevSize |-> 0, raised |-> FALSE, ok |-> FALSE, results |-> <<>>]

\* No LLMInterface takes part
LLMIdle ==
    /\ model_type = "flan-t5"
    /\ model = FALSE
    /\ tokenizer = FALSE
    /\ qa_pipeline = "none"
    /\ llmLast = NoGeneration

\* DocumentIngestor.__init__: no crawl has been started
CrawlIdle ==
    /\ visited_urls = {}
    /\ max_pages = 15
    /\ urls_to_visit = <<>>
    /\ pages_scraped = 0
    /\ crawl_documents = <<>>
    /\ current_url = NoUrl
    /\ pc = "idle"
    /\ fetches = 0
    /\ enqueues = [u \in Urls |-> 0]
    /\ popped_visited = FALSE
    /\ link_skipped = FALSE
    /\ page_result = "none"
    /\ delayed = FALSE

\* The state of appLast before any run
NoRun == [op |-> "none", after_rebuild |-> FALSE, init_called |-> FALSE,
          ingested |-> "not_run", raised |-> FALSE]

\* No browser session is open
AppIdle ==
    /\ ss_vector_store = "absent"
    /\ ss_llm = "absent"
    /\ chat_history = <<>>
    /\ ui = "closed"
    /\ appLast = NoRun

\* VectorStore.__init__; no file has been written
VSIdle ==
    /\ documents = <<>>
    /\ embeddings = NoMatrix
    /\ index = NoIndex
    /\ relevance_threshold = 12
    /\ file = MissingFile
    /\ vsLast = NoCall
    /\ saved = NothingSaved

InitVS == VSIdle /\ LLMIdle /\ CrawlIdle /\ AppIdle

\* VectorStore.create_embeddings(chunks).  model.encode and index.add are
\* library calls that may raise; index.add runs after self.index is assigned.
create_embeddings(chunks, outcome) ==
    LET emb == Encode(chunks)
    IN  /\ index' = CASE outcome = "encode_raises" -> index
                      [] outcome = "add_raises" -> NewIndex(index, <<>>)
                      [] OTHER -> NewIndex(index, emb)
        /\ documents' = IF outcome = "ok" THEN chunks ELSE documents
        /\ embeddings' = IF outcome = "ok" THEN [present |-> TRUE, rows |-> emb]
                         ELSE embeddings
        /\ vsLast' = [NoCall EXCEPT !.op = "create_embeddings", !.chunks = chunks,
                                    !.prevSize = IndexSize(index),
                                    !.raised = (outcome # "ok")]
        /\ UNCHANGED <<relevance_threshold, file, saved, llmVars, crawlVars, appVars>>

\* The mutated form of search: the threshold is tightened to the best distance found.
searchTighteningThreshold(query, k, qvec) ==
    LET res == SearchResults(index, documents, relevance_threshold, query, qvec, k)
    IN  /\ vsLast' = [NoCall EXCEPT !.op = "search", !.query = query, !.k = k,
                                    !.qvec = qvec,
                                    !.raised = res.raised, !.results = res.results]
        /\ relevance_threshold' = IF res.results # <<>> THEN res.results[1].distance
                                  ELSE relevance_threshold
        /\ UNCHANGED <<documents, embeddings, index, file, saved, llmVars, crawlVars, appVars>>

\* VectorStore.search(query, k); qvec is the embedding model.encode gives the query
search(query, k, qvec) ==
    LET res == SearchResults(index, documents, relevance_threshold, query, qvec, k)
    IN  /\ vsLast' = [NoCall EXCEPT !.op = "search", !.query = query, !.k = k,
                                    !.qvec = qvec,
                                    !.raised = res.raised, !.results = res.results]
        /\ UNCHANGED <<documents, embeddings, index, relevance_threshold, file, saved, llmVars, crawlVars, appVars>>

\* VectorStore.save(filepath).  open(filepath, 'wb') truncates the file before
\* pickle.dump writes it; either may raise.
save(outcome) ==
    /\ file' = CASE outcome = "open_raises" -> file
                 [] outcome = "dump_raises" -> UnpicklableFile
                 [] OTHER -> SavedFile(documents, embeddings, index)
    /\ saved' = CASE outcome = "open_raises" -> saved
                  [] outcome = "dump_raises" -> NothingSaved
                  [] OTHER -> [valid |-> TRUE, documents |-> documents, index |-> index]
    /\ vsLast' = [NoCall EXCEPT !.op = "save",
                                !.raised = (outcome # "ok")]
    /\ UNCHANGED <<documents, embeddings, index, relevance_threshold, llmVars, crawlVars, appVars>>

\* VectorStore.load(filepath)
load ==
    LET data == LoadedIndexData(file)
    IN  IF file.kind # "dict"
        THEN /\ vsLast' = [NoCall EXCEPT !.op = "load", !.ok = LoadReturn(file)]
             /\ UNCHANGED <<documents, embeddings, index, relevance_threshold, file, saved, llmVars, crawlVars, appVars>>
        ELSE /\ documents' = LoadedDocuments(file)
             /\ embeddings' = LoadedEmbeddings(file)
             /\ index' = CASE data.mode = "none" -> NoIndex
                           [] data.mode = "ok" -> DeserializeIndex(data)
                           [] OTHER -> index
             /\ vsLast' = [NoCall EXCEPT !.op = "load", !.ok = LoadReturn(file)]
             /\ UNCHANGED <<relevance_threshold, file, saved, llmVars, crawlVars, appVars>>

\* VectorStore(): a fresh store, as initialize_system makes one; the file stays
new_store ==
    /\ documents' = <<>>
    /\ embeddings' = NoMatrix
    /\ index' = NoIndex
    /\ relevance_threshold' = 12
    /\ vsLast' = [NoCall EXCEPT !.op = "new_store"]
    /\ UNCHANGED <<file, saved, llmVars, crawlVars, appVars>>

\* Another writer replaces or removes the file
ForeignWrite(f) ==
    /\ file' = f
    /\ saved' = NothingSaved
    /\ vsLast' = [NoCall EXCEPT !.op = "foreign_write"]
    /\ UNCHANGED <<documents, embeddings, index, relevance_threshold, llmVars, crawlVars, appVars>>

NextVS ==
    \/ \E chunks \in ChunkLists, outcome \in {"ok", "encode_raises", "add_raises"} :
           create_embeddings(chunks, outcome)
    \/ \E query \in Queries, k \in 1..MaxK, qvec \in QueryVectors : search(query, k, qvec)
    \/ \E outcome \in {"ok", "open_raises", "dump_raises"} : save(outcome)
    \/ load
    \/ new_store
    \/ \E f \in ForeignFiles : ForeignWrite(f)

SpecVS == InitVS /\ [][NextVS]_vars

---------------------------------------------------------------------------
(* Properties of the VectorStore, checked under SpecVS.                     *)

\* C1: in every reachable state the number of stored chunks, the number of
\* rows of the embedding matrix and the number of vectors of the index are
\* equal, an absent matrix or index counting as 0.
C1_AlwaysAligned ==
    /\ Len(documents) = MatrixRows(embeddings)
    /\ MatrixRows(embeddings) = IndexSize(index)

\* C2: after a create_embeddings(chunks) that returns normally the chunk list
\* is chunks, the matrix is the encoding of chunks and the index holds exactly
\* the rows of that matrix: the three have len(chunks) entries and nothing of
\* an earlier build is left.
C2_BuildReplacesWholesale ==
    (vsLast.op = "create_embeddings" /\ ~vsLast.raised) =>
        /\ documents = vsLast.chunks
        /\ embeddings = [present |-> TRUE, rows |-> Encode(vsLast.chunks)]
        /\ index = [built |-> TRUE, vecs |-> Encode(vsLast.chunks)]
        /\ Len(documents) = Len(vsLast.chunks)
        /\ MatrixRows(embeddings) = Len(vsLast.chunks)
        /\ IndexSize(index) = Len(vsLast.chunks)

\* A build of a non-empty chunk list over an earlier, non-empty index.
C2_Witness ==
    /\ vsLast.op = "create_embeddings"
    /\ ~vsLast.raised
    /\ vsLast.prevSize >= 1
    /\ Len(vsLast.chunks) >= 1
    /\ documents = vsLast.chunks

\* C3: search never returns a result whose distance exceeds
\* relevance_threshold.
C3_ResultsWithinThreshold ==
    vsLast.op = "search" =>
        \A i \in 1..Len(vsLast.results) :
            vsLast.results[i].distance <= relevance_threshold

\* A search of an accepted query that returned a result and dropped a candidate.
C3_Witness ==
    /\ vsLast.op = "search"
    /\ IsValidQuery(vsLast.query)
    /\ Len(vsLast.results) >= 1
    /\ Len(vsLast.results) < vsLast.k

\* The screen as spec.md section 4.4 states it: a token is accepted iff no
\* rejection pattern matches it and it has at least 2 distinct characters, or
\* it is a function word; a query is accepted iff one of its tokens is.
ScreenRuleAccepts(query) ==
    LET words == FindWords(query)
    IN  \E i \in 1..Len(words) :
            \/ ~IsGibberish(words[i]) /\ DistinctChars(words[i]) >= 2
            \/ words[i] \in FunctionWords

ScreenRuleTable == [q \in Queries |-> ScreenRuleAccepts(q)]

\* C4: search returns [] for every query the screen of section 4.4 does not
\* accept.
C4_RejectedQueryReturnsEmpty ==
    (vsLast.op = "search" /\ ~ScreenRuleTable[vsLast.query]) => vsLast.results = <<>>

\* C22: a search leaves the chunk list, the matrix, the index and
\* relevance_threshold as they were, whatever the query, and the same search
\* made again on the store gives the same results.
C22_SearchDoesNotMutate ==
    /\ [][vsLast'.op = "search" =>
              /\ documents' = documents
              /\ embeddings' = embeddings
              /\ index' = index
              /\ relevance_threshold' = relevance_threshold]_vars
    /\ [][(vsLast.op = "search" /\ vsLast'.op = "search"
             /\ vsLast'.query = vsLast.query /\ vsLast'.k = vsLast.k
             /\ vsLast'.qvec = vsLast.qvec) =>
              vsLast'.results = vsLast.results]_vars

\* A search of an accepted query on a built index with a chunk that returned
\* nothing: the only candidate was too far.
C22_Witness ==
    /\ vsLast.op = "search"
    /\ IsValidQuery(vsLast.query)
    /\ IndexSize(index) >= 1
    /\ Len(documents) >= 1
    /\ vsLast.results = <<>>

\* C23: a load that returns False leaves the chunk list, the matrix and the
\* index as they were before the call.
C23_FailedLoadChangesNothing ==
    [][(vsLast'.op = "load" /\ ~vsLast'.ok) =>
           /\ documents' = documents
           /\ embeddings' = embeddings
           /\ index' = index]_vars

\* The candidates the index reports for the last search
LastCandidates == Knn(index.vecs, vsLast.qvec, vsLast.k, {})

C12_LoadNeverRaises ==
    vsLast.op = "load" =>
        /\ ~vsLast.raised
        /\ file.kind = "missing" => ~vsLast.ok
        /\ file.kind \in {"unpicklable", "notdict"} => ~vsLast.ok
        /\ (file.kind = "dict" /\ LoadedIndexData(file).mode = "garbage") => ~vsLast.ok
        /\ vsLast.ok => file.kind = "dict" /\ LoadedIndexData(file).mode # "garbage"

\* A load that returned False for a dictionary whose index does not
\* deserialize, after its chunk list had been taken over.
C12_Witness ==
    /\ vsLast.op = "load"
    /\ ~vsLast.ok
    /\ file.kind = "dict"
    /\ LoadedIndexData(file).mode = "garbage"
    /\ documents = file.documents
    /\ documents # <<>>

\* C13: a load of a dictionary that lacks fields does not raise and leaves
\* empty/None for each missing field; when the index field is missing or
\* None the store holds no index and load reports the index as not
\* available, so that initialize_system rebuilds.
C13_MissingIndexMeansRebuild ==
    (vsLast.op = "load" /\ file.kind = "dict") =>
        /\ ~vsLast.raised
        /\ "documents" \notin file.has => documents = <<>>
        /\ "embeddings" \notin file.has => embeddings = NoMatrix
        /\ LoadedIndexData(file).mode = "none" =>
               /\ index = NoIndex
               /\ ~vsLast.ok
               /\ InitializeBranch(vsLast.ok) = "rebuild"

---------------------------------------------------------------------------
(* LLMInterface: src/llm.py                                                *)

\* len(context.strip()) < 20
MinContextLength == 20

\* len(context) > 800
MaxContextLength == 800

\* The characters \s matches and str.strip() removes
Whitespace == {" ", "\t", "\n", "\r"}

\* n times the character c
Rep(c, n) == [i \in 1..n |-> c]

\* str.strip()
Strip(s) ==
    LET kept == {i \in 1..Len(s) : s[i] \notin Whitespace}
    IN  IF kept = {} THEN <<>>
        ELSE SubSeq(s, CHOOSE i \in kept : \A j \in kept : i <= j,
                       CHOOSE i \in kept : \A j \in kept : j <= i)

RECURSIVE CollapseWhitespace(_, _, _)
\* re.sub(r'\s+', ' ', s) on the positions lo..hi of s: a character that is
\* no whitespace stays, the first character of a run of whitespace becomes
\* one space and the rest of the run goes.
CollapseWhitespace(s, lo, hi) ==
    IF lo > hi THEN <<>>
    ELSE IF lo = hi
    THEN IF s[lo] \notin Whitespace THEN <<s[lo]>>
         ELSE IF lo > 1 /\ s[lo - 1] \in Whitespace THEN <<>>
         ELSE <<" ">>
    ELSE LET mid == (lo + hi) \div 2
         IN  CollapseWhitespace(s, lo, mid) \o CollapseWhitespace(s, mid + 1, hi)

\* LLMInterface._clean_context
clean_context(context) ==
    LET stripped == Strip(context)
        c == CollapseWhitespace(stripped, 1, Len(stripped))
    IN  IF Len(c) > MaxContextLength
        THEN SubSeq(c, 1, MaxContextLength) \o <<".", ".", ".">>
        ELSE c

\* The mutated form of ContextTooShort: the length is taken without strip().
ContextTooShortUnstripped(context) ==
    Len(context) = 0 \/ Len(context) < MinContextLength

\* not context or len(context.strip()) < 20
ContextTooShort(context) ==
    Len(context) = 0 \/ Len(Strip(context)) < MinContextLength

\* The contexts of the model
CtxEmpty == <<>>

CtxBlank == Rep(" ", 25)

CtxShort == <<"f","e","e","s"," ","a","p","p","l","y">>

CtxNineteen == <<" ", " ">> \o Rep("a", 19) \o <<"\n">>

CtxTwenty == Rep("a", 20)

CtxGappy == <<"a">> \o Rep(" ", 20) \o <<"b">>

CtxFees ==
    <<"T","r","a","d","i","n","g"," ","f","e","e","s"," ","a",
      "r","e"," ","l","i","s","t","e","d"," ","i","n"," ","t",
      "h","e"," ","f","e","e"," ","s","c","h","e","d","u","l",
      "e",".">>

CtxOverCap == Rep("a", 801)

CtxThree ==
    <<"T","h","e"," ","f","e","e","s"," ","a","p","p","l","y","."," ","T","h","e"," "," ","f","e","e","s"," ","v","a","r","y","."," "," ","T","h","e"," ","f","e","e","s"," ","c","h","a","n","g","e",".">>

Contexts ==
    {CtxEmpty, CtxBlank, CtxShort, CtxNineteen, CtxTwenty, CtxGappy, CtxFees, CtxOverCap,
     CtxThree}

ContextTooShortTable == [c \in Contexts |-> ContextTooShort(c)]

\* The context guard, as generate_response evaluates it
IsContextTooShort(context) ==
    IF context \in Contexts THEN ContextTooShortTable[context]
    ELSE ContextTooShort(context)

CleanContextTable == [c \in Contexts |-> clean_context(c)]

\* The positions of s that hold a character of seps, with both ends of s
Cuts(s, seps) == {0, Len(s) + 1} \cup {i \in 1..Len(s) : s[i] \in seps}

\* str.split(sep) for a one-character sep, and the split at every whitespace
\* character: the pieces between the cuts, the empty ones too, in order
Split(s, seps) ==
    LET cuts   == Cuts(s, seps)
        cut(k) == CHOOSE c \in cuts : Cardinality({d \in cuts : d < c}) = k - 1
    IN  [k \in 1..(Cardinality(cuts) - 1) |-> SubSeq(s, cut(k) + 1, cut(k + 1) - 1)]

\* set(s.split()): the maximal runs of s without whitespace
Words(s) == {w \in Range(Split(s, Whitespace)) : w # <<>>}

\* keyword in query_lower
Contains(s, sub) ==
    \E i \in 1..(Len(s) - Len(sub) + 1) : SubSeq(s, i, i + Len(sub) - 1) = sub

\* keywords_responses, in the order of the dictionary
KeywordOrder ==
    <<<<"a","c","c","o","u","n","t">>,
      <<"l","o","g","i","n">>,
      <<"t","r","a","d","i","n","g">>,
      <<"f","e","e","s">>,
      <<"c","l","a","i","m">>,
      <<"s","u","p","p","o","r","t">>>>

KeywordResponse ==
    <<"To open an account, please visit our website and follow the registration process.",
      "For login issues, please check your credentials and contact support.",
      "For trading queries, please refer to our trading guidelines.",
      "Fee information can be found in your policy documents.",
      "To file a claim, contact our claims department with required documents.",
      "For additional support, please contact our customer service.">>

\* The mutated form of SentenceRelevant: no sentence is taken from the context.
SentenceRelevantNever(query_words, sentence) == FALSE

\* query_words.intersection(set(sentence.lower().split()))
SentenceRelevant(query_words, sentence) ==
    query_words \cap Words(Lower(sentence)) # {}

\* The mutated form of JoinFirstTwo: the first sentence only.
JoinFirstOnly(relevant) == relevant[1] \o <<".">>

\* ". ".join(relevant_sentences[:2]) + "."
JoinFirstTwo(relevant) ==
    IF Len(relevant) = 1 THEN relevant[1] \o <<".">>
    ELSE relevant[1] \o <<".", " ">> \o relevant[2] \o <<".">>

\* LLMInterface._fallback_response(query, context): the sentences of the
\* context that share a word with the query, else the response of the first
\* keyword the query holds, else "I Don't know"
fallback_response(query, context) ==
    LET query_lower == Lower(query)
        context_sentences == Split(context, {"."})
        query_words == Words(query_lower)
        picked == SelectSeq(context_sentences,
                            LAMBDA sentence : SentenceRelevant(query_words, sentence))
        relevant_sentences == [i \in 1..Len(picked) |-> Strip(picked[i])]
        hits == {i \in 1..Len(KeywordOrder) : Contains(query_lower, KeywordOrder[i])}
    IN  IF relevant_sentences # <<>>
        THEN [kind |-> "sentences", text |-> JoinFirstTwo(relevant_sentences), canned |-> ""]
        ELSE IF hits # {}
        THEN [kind |-> "canned", text |-> <<>>,
              canned |-> KeywordResponse[CHOOSE i \in hits : \A j \in hits : i <= j]]
        ELSE [kind |-> "unknown", text |-> <<>>, canned |-> "I Don't know"]

\* self._fallback_response(query, context) on the cleaned contexts of the model
FallbackTable ==
    [q \in Queries |-> [c \in Contexts |-> fallback_response(q, CleanContextTable[c])]]

\* text[:250] / len(text) > 250
MaxPerItem == 250

\* search_results[:3]
MaxContextItems == 3

MaxResults == 4

\* The texts of the search results handed to format_context
ResultTexts == {<<"f","e","e">>, Rep("b", MaxPerItem), Rep("c", MaxPerItem + 1)}

\* The lists of (text, score) pairs handed to format_context
ResultLists ==
    UNION {[1..n -> {[text |-> t, distance |-> 0] : t \in ResultTexts}] : n \in 0..MaxResults}

\* The mutated form of TruncateItem: the cut leaves no marker.
TruncateItemSilently(text) ==
    IF Len(text) > MaxPerItem THEN SubSeq(text, 1, MaxPerItem) ELSE text

\* text[:250] + "..." if len(text) > 250 else text
TruncateItem(text) ==
    IF Len(text) > MaxPerItem THEN SubSeq(text, 1, MaxPerItem) \o <<".", ".", ".">>
    ELSE text

RECURSIVE JoinWithSpace(_, _)
\* " ".join(context_parts), from part i on
JoinWithSpace(parts, i) ==
    IF i > Len(parts) THEN <<>>
    ELSE IF i = Len(parts) THEN parts[i]
    ELSE parts[i] \o <<" ">> \o JoinWithSpace(parts, i + 1)

\* LLMInterface.format_context
format_context_text(search_results) ==
    LET first == SubSeq(search_results, 1,
                        IF Len(search_results) < MaxContextItems
                        THEN Len(search_results) ELSE MaxContextItems)
        context_parts == [i \in 1..Len(first) |-> TruncateItem(first[i].text)]
    IN  JoinWithSpace(context_parts, 1)

\* format_context on the result lists of the model, computed once
FormatContextTable == [r \in ResultLists |-> format_context_text(r)]

\* The model_type values the callers pass (app.py: "flan-t5", "fallback")
ModelTypes == {"flan-t5", "gpt2", "fallback"}

\* The tiers of generate_response, in the order of its if/elif chain
TierOrder == <<"primary", "secondary", "tertiary", "quaternary">>

TierRank(tier) == CHOOSE i \in 1..Len(TierOrder) : TierOrder[i] = tier

\* The if/elif chain of generate_response: the generator it calls
SelectedTier(type, m, t, qa) ==
    IF type = "flan-t5" /\ m /\ t THEN "primary"
    ELSE IF type = "gpt2" /\ m /\ t THEN "secondary"
    ELSE IF qa = "loaded" THEN "tertiary"
    ELSE "quaternary"

\* The mutated form of TiersAttempted: an exception of a model tier ends the call.
TiersAttemptedNoFallback(tier, outcome) == <<tier>>

\* The generators generate_response runs, in order: the selected one, and
\* _fallback_response after it when it raised (the except of generate_response
\* for _generate_with_flan_t5 and _generate_with_gpt2, the except of
\* _generate_with_qa_pipeline for the pipeline).
TiersAttempted(tier, outcome) ==
    IF tier # "quaternary" /\ outcome = "raise" THEN <<tier, "quaternary">>
    ELSE <<tier>>

\* The mutated form of UnusableResponse: an unusable result goes to the fallback.
UnusableResponseFallsThrough(tier) == "fallback_response"

\* What a model tier returns for a result it cannot use: the empty answer of
\* _generate_with_gpt2, the confidence <= 0.1 of _generate_with_qa_pipeline
UnusableResponse(tier) == "I don't Know."

\* The mutated form of TierResponse: an exception of a model tier reaches the caller.
TierResponseUncaught(tier, outcome) ==
    CASE tier = "quaternary" -> "fallback_response"
      [] outcome = "raise" -> "exception"
      [] tier = "primary" -> "flan_t5_text"
      [] tier = "secondary" /\ outcome = "answer" -> "gpt2_answer"
      [] tier = "tertiary" /\ outcome = "answer" -> "qa_answer"
      [] OTHER -> UnusableResponse(tier)

\* What generate_response returns once the guards have passed
TierResponse(tier, outcome) ==
    CASE tier = "quaternary" \/ outcome = "raise" -> "fallback_response"
      [] tier = "primary" -> "flan_t5_text"
      [] tier = "secondary" /\ outcome = "answer" -> "gpt2_answer"
      [] tier = "tertiary" /\ outcome = "answer" -> "qa_answer"
      [] OTHER -> UnusableResponse(tier)

\* self._is_meaningful_query(query), as generate_response calls it
IsMeaningfulQuery(query) ==
    IF query \in Queries THEN MeaningfulQueryTable[query] ELSE is_meaningful_query(query)

\* LLMInterface.__init__(model_type); loaded is FALSE when from_pretrained or
\* pipeline raised
Constructed(type, loaded) ==
    /\ model_type = type
    /\ model = (loaded /\ type \in {"flan-t5", "gpt2"})
    /\ tokenizer = (loaded /\ type \in {"flan-t5", "gpt2"})
    /\ qa_pipeline = IF ~loaded THEN "none"
                     ELSE IF type \in {"flan-t5", "gpt2"} THEN "unset"
                     ELSE "loaded"

InitLLM ==
    /\ \E type \in ModelTypes, loaded \in BOOLEAN : Constructed(type, loaded)
    /\ llmLast = NoGeneration
    /\ VSIdle
    /\ CrawlIdle
    /\ AppIdle

\* LLMInterface.generate_response(query, context).  outcome is what the
\* selected model tier does: "answer", "unusable" (an empty continuation, a
\* confidence <= 0.1) or "raise".
generate_response(query, context, outcome) ==
    LET tier == SelectedTier(model_type, model, tokenizer, qa_pipeline)
        response == TierResponse(tier, outcome)
        call == [NoGeneration EXCEPT !.op = "generate_response", !.query = query,
                                     !.context = context]
    IN  /\ llmLast' =
               IF ~IsMeaningfulQuery(query)
               THEN [call EXCEPT !.response = "out_of_scope"]
               ELSE IF IsContextTooShort(context)
               THEN [call EXCEPT !.response = "i_dont_know_guard"]
               ELSE [call EXCEPT !.cleaned = CleanContextTable[context],
                                 !.outcome = IF tier = "quaternary" THEN "none" ELSE outcome,
                                 !.trace = TiersAttempted(tier, outcome),
                                 !.response = response,
                                 !.fallback = IF response = "fallback_response"
                                              THEN FallbackTable[query][context]
                                              ELSE NoFallback]
        /\ UNCHANGED <<model_type, model, tokenizer, qa_pipeline, vsVars, crawlVars, appVars>>

\* LLMInterface.format_context(search_results)
format_context(search_results) ==
    /\ llmLast' = [NoGeneration EXCEPT !.op = "format_context",
                                       !.results = search_results,
                                       !.formatted = FormatContextTable[search_results]]
    /\ UNCHANGED <<model_type, model, tokenizer, qa_pipeline, vsVars, crawlVars, appVars>>

NextLLM ==
    \/ \E query \in Queries, context \in Contexts, outcome \in {"answer", "unusable", "raise"} :
           generate_response(query, context, outcome)
    \/ \E search_results \in ResultLists : format_context(search_results)

SpecLLM == InitLLM /\ [][NextLLM]_vars

---------------------------------------------------------------------------
(* Properties of the generation cascade, checked under SpecLLM.             *)

\* The last call passed both guards: the screen of section 4.4 accepts the
\* query and the stripped context has the minimum length.
GuardsPassed ==
    /\ llmLast.op = "generate_response"
    /\ ScreenRuleTable[llmLast.query]
    /\ Len(Strip(llmLast.context)) >= MinContextLength

\* The model tier of the last call failed at inference: it raised, or the
\* causal tier gave an empty answer, or the extractive tier a low confidence.
ModelTierFailed ==
    \/ llmLast.outcome = "raise"
    \/ llmLast.outcome = "unusable" /\ llmLast.trace[1] \in {"secondary", "tertiary"}

C6_GuardsShortCircuit ==
    llmLast.op = "generate_response" =>
        /\ ~ScreenRuleTable[llmLast.query] =>
               (llmLast.response = "out_of_scope" /\ llmLast.trace = <<>>)
        /\ (ScreenRuleTable[llmLast.query]
              /\ Len(Strip(llmLast.context)) < MinContextLength) =>
               (llmLast.response = "i_dont_know_guard" /\ llmLast.trace = <<>>)
        /\ llmLast.trace # <<>> => GuardsPassed

\* A valid query with a context of whitespace only, on an interface whose
\* model loaded: the guard answered and no tier ran.
C6_Witness ==
    /\ llmLast.op = "generate_response"
    /\ ScreenRuleTable[llmLast.query]
    /\ llmLast.context # <<>>
    /\ Strip(llmLast.context) = <<>>
    /\ model /\ tokenizer
    /\ llmLast.response = "i_dont_know_guard"
    /\ llmLast.trace = <<>>

\* The strings generate_response returns
ResponseStrings ==
    {"out_of_scope", "i_dont_know_guard", "fallback_response", "flan_t5_text",
     "gpt2_answer", "qa_answer", "I don't Know."}

\* No model tier is available: nothing was loaded
AllTiersUnavailable == ~(model /\ tokenizer) /\ qa_pipeline # "loaded"

\* C14: generate_response returns a string whatever was loaded and whatever
\* the model tier does, never an exception; when no model tier is available
\* or the one that ran raised, the string is the one _fallback_response gives.
C14_NeverRaisesEndsInFallback ==
    llmLast.op = "generate_response" =>
        /\ llmLast.response \in ResponseStrings
        /\ (GuardsPassed /\ (AllTiersUnavailable \/ llmLast.outcome = "raise")) =>
               /\ llmLast.response = "fallback_response"
               /\ llmLast.fallback.kind \in {"sentences", "canned", "unknown"}
               /\ llmLast.trace[Len(llmLast.trace)] = "quaternary"

\* The QA pipeline raised and the keyword fallback answered.
C14_Witness ==
    /\ GuardsPassed
    /\ llmLast.trace = <<"tertiary", "quaternary">>
    /\ llmLast.outcome = "raise"
    /\ llmLast.response = "fallback_response"
    /\ llmLast.fallback.kind # "none"

\* The keyword "fees" of the table
FeesKeyword == KeywordOrder[4]

\* The words of a text, whitespace and the full stop taken as separators
TextWords(text) == {w \in Range(Split(Lower(text), Whitespace \cup {"."})) : w # <<>>}

\* A word of the lowercased query, as split at whitespace, is a word of the
\* cleaned context of the last call
SharesWord == Words(Lower(llmLast.query)) \cap TextWords(llmLast.cleaned) # {}

\* C15, as claimed: with no model tier available and both guards passed, a
\* query that mentions "fees" over a context that holds the word "fees" gets
\* the canned fees response.
C15_FeesQueryGetsCannedResponse ==
    (GuardsPassed /\ AllTiersUnavailable
       /\ Contains(Lower(llmLast.query), FeesKeyword)
       /\ FeesKeyword \in TextWords(llmLast.context)) =>
        /\ llmLast.response = "fallback_response"
        /\ llmLast.fallback.canned = KeywordResponse[4]

\* C15, amended: with no model tier available and both guards passed, the
\* answer is made of sentences of the context whenever a sentence shares a
\* word with the query; the canned fees response is given when no sentence
\* does and "fees" is the first keyword of the table found in the query.
C15_SentencesBeforeCannedResponse ==
    (GuardsPassed /\ AllTiersUnavailable) =>
        /\ llmLast.response = "fallback_response"
        /\ SharesWord => (llmLast.fallback.kind = "sentences" /\ llmLast.fallback.canned = "")
        /\ (~SharesWord
              /\ Contains(Lower(llmLast.query), FeesKeyword)
              /\ \A i \in 1..3 : ~Contains(Lower(llmLast.query), KeywordOrder[i])) =>
               llmLast.fallback.canned = KeywordResponse[4]

\* "What are the fees?" over "Trading fees are listed in the fee schedule."
\* with nothing loaded: the answer is that sentence.
C15_Witness ==
    /\ GuardsPassed
    /\ AllTiersUnavailable
    /\ llmLast.query = QFees
    /\ llmLast.context = CtxFees
    /\ llmLast.fallback.kind = "sentences"
    /\ llmLast.fallback.text = CtxFees

\* The model tier of the last call gave a result it cannot use: the causal
\* tier an empty answer, the extractive tier a confidence <= 0.1
UnusableResult ==
    /\ GuardsPassed
    /\ llmLast.outcome = "unusable"
    /\ llmLast.trace[1] \in {"secondary", "tertiary"}

C17_SameScreenAsSearch ==
    llmLast.op = "generate_response" =>
        ((llmLast.response = "out_of_scope") <=> ~ValidQueryTable[llmLast.query])

\* C18: a context whose normalised and truncated form is shorter than the
\* minimum length gets the fixed "I don't know" message and no tier runs,
\* whatever the length of its raw form.
C18_GuardOnNormalisedContext ==
    (llmLast.op = "generate_response"
       /\ ScreenRuleTable[llmLast.query]
       /\ Len(CleanContextTable[llmLast.context]) < MinContextLength) =>
        /\ llmLast.response = "i_dont_know_guard"
        /\ llmLast.trace = <<>>

\* The item format_context is to make of the i-th result of the last call
ExpectedItem(i) ==
    LET text == llmLast.results[i].text
    IN  IF Len(text) <= MaxPerItem THEN text
        ELSE [j \in 1..(MaxPerItem + 3) |-> IF j <= MaxPerItem THEN text[j] ELSE "."]

RECURSIVE ItemStart(_)
\* The position before the i-th item in the context string: the items before
\* it and one separator after each
ItemStart(i) == IF i = 1 THEN 0 ELSE ItemStart(i - 1) + Len(ExpectedItem(i - 1)) + 1

\* C21: the context string of format_context is made of the first 3 results
\* in their order, each text of more than 250 characters cut to its first
\* 250 followed by "...", shorter ones as they are, with exactly one
\* separator between two items and nothing else.
C21_FormatContextFirstThree ==
    llmLast.op = "format_context" =>
        LET n == IF Len(llmLast.results) < 3 THEN Len(llmLast.results) ELSE 3
        IN  /\ Len(llmLast.formatted) = IF n = 0 THEN 0 ELSE ItemStart(n) + Len(ExpectedItem(n))
            /\ \A i \in 1..n :
                   SubSeq(llmLast.formatted, ItemStart(i) + 1,
                          ItemStart(i) + Len(ExpectedItem(i))) = ExpectedItem(i)
            /\ \A i \in 2..n : llmLast.formatted[ItemStart(i)] = " "

\* Four results, the first too long, the second short, the third of exactly
\* 250 characters.
C21_Witness ==
    /\ llmLast.op = "format_context"
    /\ Len(llmLast.results) = 4
    /\ Len(llmLast.results[1].text) > MaxPerItem
    /\ Len(llmLast.results[2].text) \in 1..(MaxPerItem - 1)
    /\ Len(llmLast.results[3].text) = MaxPerItem
    /\ Len(llmLast.formatted) = (MaxPerItem + 3) + 1 + Len(llmLast.results[2].text) + 1 + MaxPerItem

\* The sentences of the cleaned context of the last call, by position, that
\* hold a word of the lowercased query
MatchingSentences ==
    LET sentences == Split(llmLast.cleaned, {"."})
    IN  {i \in 1..Len(sentences) :
            Words(Lower(llmLast.query)) \cap TextWords(sentences[i]) # {}}

\* The keywords of the table, by position, that occur in the lowercased query
KeywordsInQuery ==
    {i \in 1..Len(KeywordOrder) : Contains(Lower(llmLast.query), KeywordOrder[i])}

\* C25: whenever the keyword fallback answers, the answer is the first two
\* sentences of the context that share a word with the query, in context
\* order, joined with ". " and closed with a full stop, if there is such a
\* sentence; otherwise the canned response of the first keyword of the table
\* found in the query; otherwise "I Don't know".
C25_FallbackDecidesInOrder ==
    (llmLast.op = "generate_response" /\ llmLast.response = "fallback_response") =>
        LET sentences == Split(llmLast.cleaned, {"."})
            first  == CHOOSE i \in MatchingSentences : \A j \in MatchingSentences : i <= j
            others == MatchingSentences \ {first}
            second == CHOOSE i \in others : \A j \in others : i <= j
        IN  /\ MatchingSentences # {} =>
                   /\ llmLast.fallback.kind = "sentences"
                   /\ llmLast.fallback.text =
                          IF others = {} THEN Strip(sentences[first]) \o <<".">>
                          ELSE Strip(sentences[first]) \o <<".", " ">>
                                   \o Strip(sentences[second]) \o <<".">>
            /\ (MatchingSentences = {} /\ KeywordsInQuery # {}) =>
                   /\ llmLast.fallback.kind = "canned"
                   /\ \E i \in KeywordsInQuery :
                          /\ \A j \in KeywordsInQuery : i <= j
                          /\ llmLast.fallback.canned = KeywordResponse[i]
            /\ (MatchingSentences = {} /\ KeywordsInQuery = {}) =>
                   /\ llmLast.fallback.kind = "unknown"
                   /\ llmLast.fallback.canned = "I Don't know"

\* Three sentences of the context share a word with the query and the
\* answer holds the first two.
C25_Witness ==
    /\ llmLast.op = "generate_response"
    /\ llmLast.response = "fallback_response"
    /\ Cardinality(MatchingSentences) >= 3
    /\ llmLast.fallback.kind = "sentences"

\* The query holds two keywords of the table, no sentence matched and the
\* response is the one of the keyword that comes first in the table.
C25_KeywordWitness ==
    /\ llmLast.op = "generate_response"
    /\ llmLast.response = "fallback_response"
    /\ Cardinality(KeywordsInQuery) >= 2
    /\ llmLast.fallback.kind = "canned"

---------------------------------------------------------------------------
(* DocumentIngestor.scrape_website_recursive: src/ingest.py                *)

MaxPages == 3

\* The <a href> elements a fetched page may hold: the resolved URL (urljoin)
\* and whether the href holds one of the skipped substrings ('#', 'mailto:',
\* '.pdf', ...)
HrefUniverse ==
    {[target |-> u, skip |-> FALSE] : u \in Urls}
    \cup {[target |-> [netloc |-> "www.angelone.in", path |-> 1], skip |-> TRUE]}

\* DocumentIngestor._get_internal_links: the set behind list(set(links))
get_internal_links(hrefs, base_url) ==
    {h.target : h \in {g \in hrefs : g.target.netloc = base_url.netloc /\ ~g.skip}}

\* The orders in which list(set(links)) may list the links
Orders(links) ==
    {o \in [1..Cardinality(links) -> links] :
        \A i, j \in 1..Cardinality(links) : o[i] = o[j] => i = j}

\* Every list of distinct URLs of the site
LinkLists == UNION {Orders(links) : links \in SUBSET SiteUrls}

\* The mutated form of ShouldEnqueue: no test against the frontier.
ShouldEnqueueUnlessVisited(link, visited, frontier) == link \notin visited

\* link not in self.visited_urls and link not in urls_to_visit
ShouldEnqueue(link, visited, frontier) ==
    link \notin visited /\ link \notin Range(frontier)

RECURSIVE EnqueueLinks(_, _, _, _)
\* for link in internal_links: ... urls_to_visit.append(link), from link i on
EnqueueLinks(links, i, visited, frontier) ==
    IF i > Len(links) THEN frontier
    ELSE EnqueueLinks(links, i + 1, visited,
                      IF ShouldEnqueue(links[i], visited, frontier)
                      THEN Append(frontier, links[i])
                      ELSE frontier)

\* The mutated form of VisitedAfter: the URL is not recorded.
VisitedAfterForgetting(visited, url) == visited

\* self.visited_urls.add(current_url)
VisitedAfter(visited, url) == visited \cup {url}

\* The mutated form of LoopContinues: one page more than the budget.
LoopContinuesPastBudget(frontier, scraped, budget) ==
    frontier # <<>> /\ scraped <= budget

\* while urls_to_visit and pages_scraped < self.max_pages
LoopContinues(frontier, scraped, budget) ==
    frontier # <<>> /\ scraped < budget

InitCrawl == CrawlIdle /\ VSIdle /\ LLMIdle /\ AppIdle

\* scrape_website_recursive(start_url, max_pages), up to the while loop
start_crawl(start_url, budget) ==
    /\ pc \in {"idle", "done"}
    /\ crawl_documents' = <<>>
    /\ visited_urls' = {}
    /\ max_pages' = budget
    /\ urls_to_visit' = <<start_url>>
    /\ pages_scraped' = 0
    /\ current_url' = NoUrl
    /\ fetches' = 0
    /\ enqueues' = [u \in Urls |-> IF u = start_url THEN 1 ELSE 0]
    /\ popped_visited' = FALSE
    /\ link_skipped' = FALSE
    /\ page_result' = "none"
    /\ delayed' = FALSE
    /\ pc' = "loop"
    /\ UNCHANGED <<vsVars, llmVars, appVars>>

\* The loop test, the pop and the visited test of one iteration
loop_test ==
    /\ pc = "loop"
    /\ IF LoopContinues(urls_to_visit, pages_scraped, max_pages)
       THEN /\ current_url' = Head(urls_to_visit)
            /\ urls_to_visit' = Tail(urls_to_visit)
            /\ IF Head(urls_to_visit) \in visited_urls
               THEN /\ popped_visited' = TRUE
                    /\ pc' = "loop"
                    /\ UNCHANGED visited_urls
               ELSE /\ visited_urls' = VisitedAfter(visited_urls, Head(urls_to_visit))
                    /\ pc' = "scrape"
                    /\ UNCHANGED popped_visited
       ELSE /\ pc' = "done"
            /\ UNCHANGED <<current_url, urls_to_visit, visited_urls, popped_visited>>
    /\ UNCHANGED <<max_pages, pages_scraped, crawl_documents, fetches, enqueues,
                   link_skipped, page_result, delayed, vsVars, llmVars, appVars>>

\* The mutated form of YieldsDocument: every page gives a Document.
YieldsDocumentAlways(outcome) == TRUE

\* if document: _scrape_single_page returned a Document, not None
YieldsDocument(outcome) == outcome = "document"

\* if pages_scraped < self.max_pages: time.sleep(self.delay)
ShouldSleep(scraped, budget) == scraped < budget

\* document = self._scrape_single_page(current_url): one requests.get; the
\* page gives a Document, or its text is too short, or the fetch or the
\* parse raises
scrape_single_page(outcome) ==
    /\ pc = "scrape"
    /\ fetches' = fetches + 1
    /\ delayed' = FALSE
    /\ page_result' = outcome
    /\ IF YieldsDocument(outcome)
       THEN /\ crawl_documents' = Append(crawl_documents, current_url)
            /\ pc' = "links"
       ELSE /\ pc' = "tail"
            /\ UNCHANGED crawl_documents
    /\ UNCHANGED <<visited_urls, max_pages, urls_to_visit, pages_scraped, current_url,
                   enqueues, popped_visited, link_skipped, vsVars, llmVars, appVars>>

\* The try block after a Document: a second requests.get of current_url, and
\* the links of the page appended to the frontier; nothing when it raises
find_links(raised, hrefs, order) ==
    /\ pc = "links"
    /\ fetches' = fetches + 1
    /\ delayed' = FALSE
    /\ order \in Orders(get_internal_links(hrefs, current_url))
    /\ IF raised
       THEN UNCHANGED <<urls_to_visit, enqueues, link_skipped>>
       ELSE LET frontier == EnqueueLinks(order, 1, visited_urls, urls_to_visit)
                added == SubSeq(frontier, Len(urls_to_visit) + 1, Len(frontier))
            IN  /\ urls_to_visit' = frontier
                /\ enqueues' =
                       [u \in Urls |->
                           enqueues[u] + Cardinality({i \in 1..Len(added) : added[i] = u})]
                /\ link_skipped' = (link_skipped \/ Len(added) < Len(order))
    /\ pc' = "tail"
    /\ UNCHANGED <<visited_urls, max_pages, pages_scraped, crawl_documents, current_url,
                   popped_visited, page_result, vsVars, llmVars, appVars>>

\* pages_scraped += 1, and the politeness delay when the budget is not used up
end_iteration ==
    /\ pc = "tail"
    /\ pages_scraped' = pages_scraped + 1
    /\ delayed' = ShouldSleep(pages_scraped + 1, max_pages)
    /\ pc' = "loop"
    /\ UNCHANGED <<visited_urls, max_pages, urls_to_visit, crawl_documents, current_url,
                   fetches, enqueues, popped_visited, link_skipped, page_result,
                   vsVars, llmVars, appVars>>

\* The steps of a running crawl
CrawlProgress ==
    \/ loop_test
    \/ \E outcome \in {"document", "discarded", "error"} : scrape_single_page(outcome)
    \/ \E raised \in BOOLEAN, hrefs \in SUBSET HrefUniverse, order \in LinkLists :
           find_links(raised, hrefs, order)
    \/ end_iteration

NextCrawl ==
    \/ \E start_url \in SiteUrls, budget \in 0..MaxPages : start_crawl(start_url, budget)
    \/ loop_test
    \/ \E outcome \in {"document", "discarded", "error"} : scrape_single_page(outcome)
    \/ \E raised \in BOOLEAN, hrefs \in SUBSET HrefUniverse, order \in LinkLists :
           find_links(raised, hrefs, order)
    \/ end_iteration

SpecCrawl == InitCrawl /\ [][NextCrawl]_vars

\* The crawl is one synchronous loop: each of its steps is taken (requests.get
\* has a timeout, time.sleep returns).
FairSpecCrawl == SpecCrawl /\ WF_vars(CrawlProgress)

---------------------------------------------------------------------------
(* Properties of the crawl, checked under SpecCrawl and FairSpecCrawl.      *)

\* C7: no URL is the source of more than one Document of the crawl.
C7_NoUrlTwiceInDocuments ==
    \A i, j \in 1..Len(crawl_documents) :
        crawl_documents[i] = crawl_documents[j] => i = j

\* A crawl that returned two Documents or more after leaving a link out of
\* the frontier as visited or queued.
C7_Witness ==
    /\ pc = "done"
    /\ Len(crawl_documents) >= 2
    /\ link_skipped

\* C8: the requests.get calls of a crawl, those for the content and those
\* for the links, never number more than max_pages.
C8_FetchesWithinBudget == pc # "idle" => fetches <= max_pages

\* The frontier holds no URL twice and no visited URL, no URL was put on it
\* twice, and no popped URL was a visited one.
FrontierDeduplicated ==
    /\ \A i, j \in 1..Len(urls_to_visit) : urls_to_visit[i] = urls_to_visit[j] => i = j
    /\ \A i \in 1..Len(urls_to_visit) : urls_to_visit[i] \notin visited_urls
    /\ \A u \in Urls : enqueues[u] <= 1
    /\ ~popped_visited

\* C9: within one crawl visited_urls only grows, and at every step the
\* frontier holds no duplicate and no visited URL, every URL having been
\* appended to it at most once; no popped URL was visited before.
C9_VisitedGrowsFrontierDeduplicated ==
    /\ []FrontierDeduplicated
    /\ [][pc \notin {"idle", "done"} => visited_urls \subseteq visited_urls']_vars

\* Two pages were visited, a link was left out as visited or queued, and
\* the frontier still holds a URL.
C9_Witness ==
    /\ Cardinality(visited_urls) >= 2
    /\ link_skipped
    /\ urls_to_visit # <<>>

\* What C10 states of every step and of the return: at most max_pages pages
\* processed and Documents emitted, every visited page counted as processed
\* whatever became of it, and on return an empty frontier or a used-up budget.
CrawlWithinBudget ==
    pc # "idle" =>
        /\ pages_scraped <= max_pages
        /\ Len(crawl_documents) <= max_pages
        /\ Len(crawl_documents) <= Cardinality(visited_urls)
        /\ pc = "done" =>
               /\ pages_scraped = Cardinality(visited_urls)
               /\ urls_to_visit = <<>> \/ pages_scraped = max_pages

\* C10: every crawl terminates, within its budget of pages and Documents,
\* and returns with an empty frontier or exactly max_pages pages processed.
C10_CrawlTerminatesWithinBudget ==
    /\ []CrawlWithinBudget
    /\ (pc \notin {"idle", "done"}) ~> (pc = "done")

\* A crawl that returned on its budget with URLs left on the frontier, one of
\* its pages having given no Document.
C10_Witness ==
    /\ pc = "done"
    /\ urls_to_visit # <<>>
    /\ pages_scraped = max_pages
    /\ Len(crawl_documents) < pages_scraped

\* C19: every requests.get of a crawl but the first comes after a
\* time.sleep that followed the one before it, and a crawl that has returned
\* did not sleep after its last page.
C19_DelayBetweenFetchesOnly ==
    /\ [][(fetches' = fetches + 1 /\ fetches >= 1) => delayed]_vars
    /\ [](pc = "done" => ~delayed)

\* The page at hand gave no Document: the fetch or the parse raised, or the
\* cleaned text was too short
PageFailed == page_result \in {"discarded", "error"}

\* C20: a page that fails emits no Document and puts no link on the
\* frontier, the Documents emitted before it stay, and the crawl goes on
\* with the next URL of the frontier while the budget lasts; links are put on
\* the frontier only from the page that was just emitted as a Document.
C20_PageFailureIsNotFatal ==
    /\ [][(pc = "scrape" /\ page_result' \in {"discarded", "error"}) =>
              /\ crawl_documents' = crawl_documents
              /\ urls_to_visit' = urls_to_visit
              /\ enqueues' = enqueues
              /\ pc' = "tail"]_vars
    /\ []((pc = "tail" /\ PageFailed) =>
              \A i \in 1..Len(crawl_documents) : crawl_documents[i] # current_url)
    /\ [][pc \notin {"idle", "done"} =>
              /\ Len(crawl_documents) <= Len(crawl_documents')
              /\ SubSeq(crawl_documents', 1, Len(crawl_documents)) = crawl_documents]_vars
    /\ [][(pc \notin {"idle", "done"} /\ \E u \in Urls : enqueues'[u] > enqueues[u]) =>
              /\ page_result = "document"
              /\ crawl_documents # <<>>
              /\ crawl_documents[Len(crawl_documents)] = current_url]_vars
    /\ \A u \in SiteUrls :
           (pc = "tail" /\ PageFailed /\ urls_to_visit # <<>> /\ Head(urls_to_visit) = u
              /\ pages_scraped + 1 < max_pages)
               ~> (pc = "scrape" /\ current_url = u)

\* A crawl of three pages that returned two Documents, the last of them from
\* the page visited last: a page before it failed.
C20_Witness ==
    /\ pc = "done"
    /\ Cardinality(visited_urls) = 3
    /\ Len(crawl_documents) = 2
    /\ crawl_documents[2] = current_url
    /\ page_result = "document"

---------------------------------------------------------------------------
(* The Streamlit script: src/app.py.  One run of main is one action; a     *)
(* widget the user works (the chat input, a button) starts a run in which  *)
(* that widget reports the event.  documents, embeddings and index are the *)
(* fields of the store the session holds, those of a fresh store when it   *)
(* holds none.                                                             *)

MaxChat == 1

\* search(prompt, k=3)
AppK == 3

\* The fields of VectorStore()
FreshStore == [documents |-> <<>>, embeddings |-> NoMatrix, index |-> NoIndex]

\* The fields of the store st after st.load(path) on the file f
StoreAfterLoad(st, f) ==
    LET data == LoadedIndexData(f)
    IN  IF f.kind # "dict" THEN st
        ELSE [documents  |-> LoadedDocuments(f),
              embeddings |-> LoadedEmbeddings(f),
              index      |-> CASE data.mode = "none" -> NoIndex
                               [] data.mode = "ok" -> DeserializeIndex(data)
                               [] OTHER -> st.index]

\* The fields of the store st after st.create_embeddings(chunks)
StoreAfterBuild(st, chunks) ==
    [documents  |-> chunks,
     embeddings |-> [present |-> TRUE, rows |-> Encode(chunks)],
     index      |-> NewIndex(st.index, Encode(chunks))]

\* initialize_system(): the file f is loaded into a fresh store; when load
\* returns False the chunks of the ingestion are embedded and saved, unless
\* there are none.  build is what create_embeddings and save do.  session is
\* what main puts into the session: the pair returned, (None, None), or
\* nothing when the call raised.
initialize_system(f, chunks, build) ==
    LET loadedStore == StoreAfterLoad(FreshStore, f)
        builtStore  == StoreAfterBuild(loadedStore, chunks)
    IN  IF InitializeBranch(LoadReturn(f)) = "serve"
        THEN [session |-> "set", store |-> loadedStore, file |-> f, wrote |-> FALSE,
              ingested |-> "not_run", raised |-> FALSE]
        ELSE IF chunks = <<>>
        THEN [session |-> "none", store |-> FreshStore, file |-> f, wrote |-> FALSE,
              ingested |-> "empty", raised |-> FALSE]
        ELSE CASE build = "create_raises" ->
                      [session |-> "unset", store |-> FreshStore, file |-> f, wrote |-> FALSE,
                       ingested |-> "chunks", raised |-> TRUE]
               [] build = "save_raises" ->
                      [session |-> "unset", store |-> FreshStore, file |-> UnpicklableFile,
                       wrote |-> FALSE, ingested |-> "chunks", raised |-> TRUE]
               [] OTHER ->
                      [session |-> "set", store |-> builtStore,
                       file |-> SavedFile(builtStore.documents, builtStore.embeddings,
                                          builtStore.index),
                       wrote |-> TRUE, ingested |-> "chunks", raised |-> FALSE]

\* 'vector_store' not in st.session_state or 'llm' not in st.session_state
NeedsInitialization(vs, llm) == vs = "absent" \/ llm = "absent"

\* not st.session_state.vector_store or not st.session_state.llm
FailedToInitialize(vs, llm) == vs # "store" \/ llm # "llm"

InitApp == AppIdle /\ VSIdle /\ LLMIdle /\ CrawlIdle

\* A run of main without a widget event: the first run of a session, the run
\* st.rerun() starts, a run after the page is loaded again.  loaded is
\* whether LLMInterface("flan-t5") could load its model.
main_run(chunks, build, loaded) ==
    LET init == initialize_system(file, chunks, build)
        called == NeedsInitialization(ss_vector_store, ss_llm)
        vs  == IF ~called \/ init.session = "unset" THEN ss_vector_store
               ELSE IF init.session = "set" THEN "store" ELSE "none"
        llm == IF ~called \/ init.session = "unset" THEN ss_llm
               ELSE IF init.session = "set" THEN "llm" ELSE "none"
    IN  /\ ss_vector_store' = vs
        /\ ss_llm' = llm
        /\ IF called
           THEN /\ documents' = init.store.documents
                /\ embeddings' = init.store.embeddings
                /\ index' = init.store.index
                /\ file' = init.file
                /\ saved' = IF init.wrote
                            THEN [valid |-> TRUE, documents |-> init.store.documents,
                                  index |-> init.store.index]
                            ELSE IF init.file # file THEN NothingSaved ELSE saved
                /\ IF init.session = "set"
                   THEN /\ model_type' = "flan-t5"
                        /\ model' = loaded
                        /\ tokenizer' = loaded
                        /\ qa_pipeline' = IF loaded THEN "unset" ELSE "none"
                   ELSE UNCHANGED <<model_type, model, tokenizer, qa_pipeline>>
           ELSE UNCHANGED <<documents, embeddings, index, file, saved,
                            model_type, model, tokenizer, qa_pipeline>>
        /\ ui' = IF called /\ init.raised THEN "exception"
                 ELSE IF FailedToInitialize(vs, llm) THEN "error"
                 ELSE "ready"
        /\ appLast' = [op |-> "main", after_rebuild |-> (appLast.op = "rebuild"),
                       init_called |-> called,
                       ingested |-> IF called THEN init.ingested ELSE "not_run",
                       raised |-> (called /\ init.raised)]
        /\ UNCHANGED <<relevance_threshold, vsLast, llmLast, chat_history, crawlVars>>

\* A run of main started by the chat input: the prompt and the answer are
\* appended to the history; the answer is the fixed text when search returns
\* nothing and what generate_response returns otherwise.
ask(query, qvec) ==
    LET res == SearchResults(index, documents, relevance_threshold, query, qvec, AppK)
    IN  /\ ui = "ready"
        /\ Len(chat_history) < 2 * MaxChat
        /\ vsLast' = [NoCall EXCEPT !.op = "search", !.query = query, !.k = AppK,
                                    !.qvec = qvec,
                                    !.raised = res.raised, !.results = res.results]
        /\ chat_history' =
               chat_history
                   \o <<[role |-> "user", content |-> "prompt"],
                        [role |-> "assistant",
                         content |-> IF res.results = <<>> THEN "no_results" ELSE "generated"]>>
        /\ appLast' = [NoRun EXCEPT !.op = "ask"]
        /\ UNCHANGED <<documents, embeddings, index, relevance_threshold, file, saved,
                       ss_vector_store, ss_llm, ui, llmVars, crawlVars>>

\* A run of main started by the "Rebuild Knowledge Base" button: both session
\* values are set to None, the file is removed and st.rerun() is called
rebuild ==
    /\ ui = "ready"
    /\ ss_vector_store' = "none"
    /\ ss_llm' = "none"
    /\ documents' = FreshStore.documents
    /\ embeddings' = FreshStore.embeddings
    /\ index' = FreshStore.index
    /\ file' = MissingFile
    /\ saved' = NothingSaved
    /\ ui' = "rerun"
    /\ appLast' = [NoRun EXCEPT !.op = "rebuild"]
    /\ UNCHANGED <<relevance_threshold, vsLast, chat_history, llmVars, crawlVars>>

\* A run of main started by the "Clear Chat" button
clear_chat ==
    /\ ui = "ready"
    /\ chat_history' = <<>>
    /\ ui' = "rerun"
    /\ appLast' = [NoRun EXCEPT !.op = "clear_chat"]
    /\ UNCHANGED <<vsVars, llmVars, crawlVars, ss_vector_store, ss_llm>>

\* The browser opens a new session: st.session_state is empty
new_session ==
    /\ ui # "closed"
    /\ ss_vector_store' = "absent"
    /\ ss_llm' = "absent"
    /\ chat_history' = <<>>
    /\ documents' = FreshStore.documents
    /\ embeddings' = FreshStore.embeddings
    /\ index' = FreshStore.index
    /\ ui' = "closed"
    /\ appLast' = [NoRun EXCEPT !.op = "new_session"]
    /\ UNCHANGED <<relevance_threshold, file, saved, vsLast, llmVars, crawlVars>>

NextApp ==
    \/ \E chunks \in ChunkLists, build \in {"ok", "create_raises", "save_raises"},
          loaded \in BOOLEAN : main_run(chunks, build, loaded)
    \/ \E query \in Queries, qvec \in QueryVectors : ask(query, qvec)
    \/ rebuild
    \/ clear_chat
    \/ new_session

SpecApp == InitApp /\ [][NextApp]_vars

---------------------------------------------------------------------------
(* Properties of the Streamlit script, checked under SpecApp.               *)

\* C26: the run of main that follows a press of "Rebuild Knowledge Base"
\* calls initialize_system, and when the ingestion gave a chunk and nothing
\* raised, the session holds a store and an LLM and the page is ready for
\* queries.
C26_RebuildReinitialises ==
    (appLast.op = "main" /\ appLast.after_rebuild) =>
        /\ appLast.init_called
        /\ (appLast.ingested = "chunks" /\ ~appLast.raised) =>
               /\ ss_vector_store = "store"
               /\ ss_llm = "llm"
               /\ ui = "ready"

===========================================================================
